---- MODULE Spec2Model ----
(***************************************************************************)
(* Field-level encryption migration, searchable-hash migration and the     *)
(* encrypted backup pipeline of the IMPACT repository.                     *)
(*                                                                         *)
(*   execution/active/migrate_to_encrypted_fields.py  (encryption run)     *)
(*   execution/migrations/add_searchable_hashes.py    (hash run)           *)
(*   execution/active/backup_database.py              (backup / restore)   *)
(*                                                                         *)
(* app/utils/encryption.py is not part of the sources at hand: the field   *)
(* cipher and the search hash are modelled from the specification.         *)
(***************************************************************************)
EXTENDS Integers, Sequences, FiniteSets, TLC

(***************************************************************************)
(* Bounds of the model.                                                    *)
(***************************************************************************)
NumDocs == 2

Docs == 1..NumDocs

\* The nonces encrypt_field draws from: two, so that encrypting the same
\* plaintext twice can give two ciphertexts.
Nonces == {"1", "2"}

(***************************************************************************)
(* Stored values.  A field of a document is missing, null (None) or a      *)
(* string; a string is a sequence of tokens.                               *)
(***************************************************************************)
Absent == [k |-> "absent", s |-> <<>>]
Null == [k |-> "null", s |-> <<>>]
Str(s) == [k |-> "str", s |-> s]

\* Python truthiness of a stored value: None and '' are falsy.
IsTruthy(v) == v.k = "str" /\ v.s # <<>>

(***************************************************************************)
(* Field cipher and search hash (app.utils.encryption).                    *)
(***************************************************************************)
ENCRYPTION_PREFIX == "ENC:"
ENCRYPTED_FIELDS == <<"nhs_number", "mrn">>

is_encrypted(v) == v.k = "str" /\ Len(v.s) >= 1 /\ v.s[1] = ENCRYPTION_PREFIX

\* marker, fresh nonce, payload
encrypt_field(v, n) == Str(<<ENCRYPTION_PREFIX, n>> \o v.s)

\* The authentication tag verifies: the value was produced by encrypt_field.
DecryptOk(v) == is_encrypted(v) /\ Len(v.s) >= 2 /\ v.s[2] \in Nonces

decrypt_field(v) == Str(SubSeq(v.s, 3, Len(v.s)))

Lower(c) == IF c = "B" THEN "b" ELSE c

RECURSIVE LStrip(_)
LStrip(s) == IF s # <<>> /\ Head(s) = " " THEN LStrip(Tail(s)) ELSE s

RECURSIVE RStrip(_)
RStrip(s) ==
  IF s # <<>> /\ s[Len(s)] = " " THEN RStrip(SubSeq(s, 1, Len(s) - 1)) ELSE s

Normalize(s) == [i \in 1..Len(RStrip(LStrip(s))) |-> Lower(RStrip(LStrip(s))[i])]

generate_search_hash(v) ==
  IF IsTruthy(v) THEN Str(<<"H:">> \o Normalize(v.s)) ELSE Null

HashField(f) == IF f = "nhs_number" THEN "nhs_number_hash" ELSE "mrn_hash"

(***************************************************************************)
(* The data the runs start from.                                           *)
(***************************************************************************)
PlainA == Str(<<"a">>)
PlainB == Str(<<" ", "B">>)
Empty == Str(<<>>)
EncA == encrypt_field(PlainA, "1")
Corrupt == Str(<<ENCRYPTION_PREFIX, "bad">>)
DoubleEnc == encrypt_field(EncA, "1")

Doc(nhs, mrn, nhsh, mrnh) ==
  [nhs_number |-> nhs, mrn |-> mrn, nhs_number_hash |-> nhsh, mrn_hash |-> mrnh]

InitialDocs ==
  { Doc(PlainA, PlainA, Absent, Absent),
    Doc(PlainB, Absent, Absent, Absent),
    Doc(Null, EncA, Absent, Absent),
    Doc(Empty, Absent, Absent, Absent),
    Doc(EncA, Absent, generate_search_hash(PlainA), Absent),
    Doc(Corrupt, Absent, Absent, Absent),
    Doc(Absent, DoubleEnc, Absent, Absent) }

VARIABLES
  patients,   \* the patients collection: document id -> document
  patients0,  \* the collection as it was before the first run
  enc,        \* the encryption migration run (migrate_to_encrypted_fields.main)
  hsh,        \* the hash migration run (migrate_patient_hashes)
  hist        \* what has happened so far: a complete error-free real run of
              \* each migration, a crash in the middle of a batch

VARIABLES
  fs,         \* the backup directory: backup name -> the files of that name
  keyfiles,   \* ENCRYPTION_KEY_FILE and SALT_FILE (0: the file is missing)
  bk,         \* the backup run (backup_database.main)
  dec,        \* the decrypt_backup call
  clock       \* the timestamp of the latest backup run

VARIABLES
  db,         \* the database the backup reads: documents per collection
  api,        \* the latest answer of the restore endpoint
  kp,         \* the processes inside get_or_create_encryption_key
  lookup,     \* the latest patient search: what it decrypted and found
  listed,     \* the latest answer of the listing and details endpoints
  resp,       \* the latest answer of the patient endpoint (get_patient)
  epf,        \* the encrypt_patient_fields run (encrypt_all_patient_fields.py)
  apiw,       \* the sensitive values update_patient has stored
  runs        \* two backup runs started side by side (backup_database.main)

migVars == <<patients, patients0, enc, hsh, hist>>
bakVars == <<fs, keyfiles, bk, dec, clock>>
extVars == <<db, api, kp, lookup, listed, resp, epf, apiw, runs>>
vars == <<patients, patients0, enc, hsh, hist, fs, keyfiles, bk, dec, clock, db,
          api, kp, lookup,
          listed,
          resp,
          epf,
          apiw,
          runs>>

(***************************************************************************)
(* Backup files.  Name 0 is an encrypted backup that was made under other  *)
(* key material; names 1..NumBackups are the timestamps of the runs.  The  *)
(* runs follow one another, each under a timestamp of its own.             *)
(***************************************************************************)
NumBackups == 1
MaxKeyId == 2

Names == 0..NumBackups
KeyIds == 1..MaxKeyId

\* json.dump of a bool
JsonBool(b) == IF b THEN "true" ELSE "false"

\* no request has reached the listing or the details endpoint
NoListing == [endpoint |-> "none", backup_name |-> 0, status |-> 0,
              backups |-> {}]

\* two backup runs that may be started at once; -1: no timestamp taken yet
Runs == {"r1", "r2"}
RunIdle == [pc |-> "idle", name |-> -1]
NoRuns == [r \in Runs |-> RunIdle]

\* update_patient has not been called
MaxApiUpdates == 1
NoApiWrites == [n |-> 0, last |-> [d \in Docs |-> [mrn |-> Absent,
                                                  nhs_number |-> Absent]]]

\* encrypt_patient_fields has not been started
EpfIdle == [pc |-> "idle", cursor |-> <<>>, encrypted_count |-> 0]

\* no request has reached get_patient
NoResponse == [status |-> 0, body |-> <<>>]

\* no patient search has been made
NoLookup == [endpoint |-> "none", search |-> <<>>, decrypted |-> {},
             found |-> {}]

\* two processes that may call get_or_create_encryption_key at once
Procs == {"p1", "p2"}
KpIdle == [pc |-> "idle", password |-> 0, salt |-> 0, key |-> <<0, 0>>]

\* no request has reached the restore endpoint
NoAnswer == [status |-> 0, confirm |-> FALSE, backup_name |-> 0,
             command |-> <<>>, ran |-> {}]

NoKey == <<0, 0>>
ForeignKey == <<MaxKeyId + 1, MaxKeyId + 1>>

\* PBKDF2HMAC(salt).derive(password)
Derive(secret, salt) == <<secret, salt>>

\* Fernet.generate_key(): a random key, derived from no key files
RandomKeys == {<<0, k>> : k \in KeyIds}

returned_cipher_Throwaway(key, throwaway) == throwaway

\* the cipher get_or_create_encryption_key returns: a Fernet is built on a
\* random key first, and the one returned is built on the derived key
returned_cipher(key, throwaway) == key

\* The collections of the database, in the order list_collection_names
\* gives them, and the most documents a collection holds.
Colls == <<"patients", "episodes">>
CollSet == {Colls[i] : i \in 1..Len(Colls)}
MaxCount == 3
MaxDbChanges == 1

DbFull == [count |-> [c \in CollSet |-> MaxCount], changes |-> 0]

\* What a file holds.  A dump and a collections table map the collections
\* written so far to a number of documents; the empty function is <<>>.
NoManifest == [backup_type |-> "none", collections |-> <<>>,
               total_documents |-> 0, encrypted |-> "unset"]
NoContent == [dump |-> <<>>, manifest |-> NoManifest]
NoBytes == [key |-> NoKey, plain |-> NoContent, iv |-> 0]
NoSum == [digest |-> <<"sha256", NoBytes>>, fname |-> <<0, "none">>]

\* the initialization vectors Fernet draws from
IVs == {1, 2}

NoFiles ==
  [dir |-> "absent", tar |-> "absent", enc |-> [st |-> "absent", key |-> NoKey],
   sum |-> "absent", meta |-> "absent",
   files |-> NoContent, tarfiles |-> NoContent, encbytes |-> NoBytes,
   sumline |-> NoSum, metafile |-> NoManifest, original |-> NoContent]

\* fernet.encrypt(plaintext): the token holds the plaintext under the key,
\* with a fresh initialization vector
fernet_encrypt(key, plain, iv) == [key |-> key, plain |-> plain, iv |-> iv]

\* hashlib.sha256(data).hexdigest()
sha256(data) == <<"sha256", data>>

\* f"{backup_dir.name}.tar.gz.enc"
EncName(name) == <<name, "tar.gz.enc">>

\* a checksum line computed from the plaintext that was encrypted
checksum_line_OfPlaintext(ciphertext, name) ==
  [digest |-> sha256(ciphertext.plain), fname |-> EncName(name)]

\* f"{sha256_hash}  {encrypted_path.name}\n"
checksum_line(ciphertext, name) ==
  [digest |-> sha256(ciphertext), fname |-> EncName(name)]

ForeignBackup ==
  [NoFiles EXCEPT !.enc = [st |-> "full", key |-> ForeignKey],
                  !.sum = "full", !.meta = "present",
                  !.encbytes = fernet_encrypt(ForeignKey, NoContent, 1),
                  !.sumline = checksum_line(fernet_encrypt(ForeignKey, NoContent, 1), 0)]

EmptyStats == [collections |-> <<>>, total_documents |-> 0]

BkIdle == [pc |-> "idle", name |-> 0, noEncrypt |-> FALSE, inEncrypt |-> FALSE,
           key |-> NoKey, gen |-> 0, free |-> 0, warned |-> FALSE,
           manual |-> FALSE, viaApi |-> FALSE, stats |-> EmptyStats,
           cipher |-> NoBytes]

DecIdle == [pc |-> "idle", name |-> 0, key |-> NoKey, gen |-> 0,
            before |-> [tar |-> "absent", dir |-> "absent"],
            plain |-> NoContent]

EncIdle ==
  [pc |-> "idle", dry |-> FALSE, fi |-> 1, cursor |-> <<>>,
   processed |-> 0, errors |-> 0, total |-> 0, raised |-> 0, printed |-> 0,
   unvisited |-> 0, writes |-> 0, second |-> FALSE, checked |-> 0,
   verified |-> TRUE]

HashIdle ==
  [pc |-> "idle", dry |-> FALSE, fi |-> 1, cursor |-> <<>>,
   updated |-> 0, skipped |-> 0, raised |-> 0, unvisited |-> 0,
   writes |-> 0, second |-> FALSE]

HistInit == [encClean |-> FALSE, hashClean |-> FALSE, midBatch |-> FALSE]

Init ==
  /\ patients \in [Docs -> InitialDocs]
  /\ patients0 = patients
  /\ enc = EncIdle
  /\ hsh = HashIdle
  /\ hist = HistInit
  /\ fs = [n \in Names |-> NoFiles]
  /\ keyfiles = [secret |-> 0, salt |-> 0]
  /\ bk = BkIdle
  /\ dec = DecIdle
  /\ clock = 0
  /\ db = DbFull
  /\ api = NoAnswer
  /\ kp = [p \in Procs |-> KpIdle]
  /\ lookup = NoLookup
  /\ listed = NoListing
  /\ resp = NoResponse
  /\ epf = EpfIdle
  /\ apiw = NoApiWrites
  /\ runs = NoRuns

(***************************************************************************)
(* Collection helpers (pymongo).                                           *)
(***************************************************************************)
\* The documents of S in the order a cursor returns them (by _id).
SetToSeq(S) ==
  [i \in 1..Cardinality(S) |->
     CHOOSE d \in S : Cardinality({e \in S : e < d}) = i - 1]

Take(q, n) == SubSeq(q, 1, IF Len(q) < n THEN Len(q) ELSE n)

\* collection.find(query): each selected document as it is read
Snapshot(S, f) == [i \in 1..Cardinality(S) |->
                     [id |-> SetToSeq(S)[i], v |-> patients[SetToSeq(S)[i]][f]]]

\* update_one that replaced the document by the one field, as a $set left out
\* would
UpdateOne_Replace(d, f, val) ==
  [patients EXCEPT ![d] = [[g \in DOMAIN patients[d] |-> Absent] EXCEPT ![f] = val]]

\* collection.update_one({'_id': d}, {'$set': {f: val}})
UpdateOne(d, f, val) == [patients EXCEPT ![d][f] = val]

\* {'$regex': '^ENC:'}: a string that starts with the marker
RegexPrefix(v) == v.k = "str" /\ Len(v.s) >= 1 /\ v.s[1] = ENCRYPTION_PREFIX

(***************************************************************************)
(* migrate_to_encrypted_fields.py                                          *)
(***************************************************************************)
\* the selection without its test of the marker
NeedsEncryptionQuery_NoPrefixTest(v) == v.k # "absent" /\ v # Empty

\* The "needs encryption" query.  The dict literal names '$ne' twice, so the
\* query sent is {'$exists': True, '$ne': '', '$not': {'$regex': '^ENC:'}}:
\* a null value is selected.
NeedsEncryptionQuery(v) == v.k # "absent" /\ v # Empty /\ ~RegexPrefix(v)

analyze_collection(f) ==
  LET total == Cardinality(Docs)
      encrypted == Cardinality({d \in Docs : RegexPrefix(patients[d][f])})
      unencrypted ==
        Cardinality({d \in Docs : NeedsEncryptionQuery(patients[d][f])})
  IN [total |-> total, encrypted |-> encrypted, unencrypted |-> unencrypted,
      missing |-> total - encrypted - unencrypted]

\* the branches without the dry-run return
migrate_field_branch_IgnoreDry(unencrypted, dry) ==
  IF unencrypted = 0 THEN "nothing" ELSE "encrypt"

\* What migrate_field does once it has the statistics: return 0, report the
\* number a dry run would encrypt, or go on to encrypt.
migrate_field_branch(unencrypted, dry) ==
  IF unencrypted = 0 THEN "nothing" ELSE IF dry THEN "dry" ELSE "encrypt"

EncActive == enc.pc \in {"field", "loop", "verify"}
HashActive == hsh.pc \in {"find", "loop"}

\* main() up to the loop over ENCRYPTED_FIELDS
StartEnc(dry) ==
  /\ ~EncActive
  /\ ~HashActive
  /\ enc' = [EncIdle EXCEPT !.pc = "field", !.dry = dry,
                            !.second = hist.encClean]
  /\ hsh' = HashIdle
  /\ UNCHANGED <<patients, patients0, hist>>
  /\ UNCHANGED bakVars
  /\ UNCHANGED extVars

\* migrate_field up to the cursor
EncFieldStart ==
  /\ enc.pc = "field"
  /\ enc.fi <= Len(ENCRYPTED_FIELDS)
  /\ LET f == ENCRYPTED_FIELDS[enc.fi]
         stats == analyze_collection(f)
         S == {d \in Docs : NeedsEncryptionQuery(patients[d][f])}
         branch == migrate_field_branch(stats.unencrypted, enc.dry)
     IN \/ /\ branch = "nothing"
           /\ enc' = [enc EXCEPT !.fi = @ + 1]
        \/ /\ branch = "dry"
           /\ enc' = [enc EXCEPT !.fi = @ + 1,
                                 !.total = @ + stats.unencrypted]
        \/ /\ branch = "encrypt"
           /\ enc' = [enc EXCEPT !.pc = "loop",
                                 !.cursor = Snapshot(S, f),
                                 !.unvisited = @ + Cardinality(S),
                                 !.processed = 0, !.errors = 0]
  /\ UNCHANGED <<patients, patients0, hsh, hist>>
  /\ UNCHANGED bakVars
  /\ UNCHANGED extVars

\* one iteration of "for doc in cursor" of migrate_field
EncDoc ==
  /\ enc.pc = "loop"
  /\ enc.cursor # <<>>
  /\ LET f == ENCRYPTED_FIELDS[enc.fi]
         doc == Head(enc.cursor)
     IN \/ /\ IsTruthy(doc.v)
           /\ \E n \in Nonces :
                patients' = UpdateOne(doc.id, f, encrypt_field(doc.v, n))
           /\ enc' = [enc EXCEPT !.cursor = Tail(@), !.processed = @ + 1,
                                 !.unvisited = @ - 1, !.writes = @ + 1]
        \/ /\ IsTruthy(doc.v)
           \* encrypt_field or update_one raises
           /\ enc' = [enc EXCEPT !.cursor = Tail(@), !.errors = @ + 1,
                                 !.unvisited = @ - 1, !.raised = @ + 1]
           /\ UNCHANGED patients
        \/ /\ ~IsTruthy(doc.v)
           /\ enc' = [enc EXCEPT !.cursor = Tail(@), !.unvisited = @ - 1]
           /\ UNCHANGED patients
  /\ UNCHANGED <<patients0, hsh, hist>>
  /\ UNCHANGED bakVars
  /\ UNCHANGED extVars

\* the end of migrate_field: the tallies are printed, processed is returned
EncFieldEnd ==
  /\ enc.pc = "loop"
  /\ enc.cursor = <<>>
  /\ enc' = [enc EXCEPT !.pc = "field", !.fi = @ + 1,
                        !.total = @ + enc.processed,
                        !.printed = @ + enc.errors]
  /\ UNCHANGED <<patients, patients0, hsh, hist>>
  /\ UNCHANGED bakVars
  /\ UNCHANGED extVars

SampleSize == 10

\* the verification without its test of the marker on the decrypted value
verify_encryption_NoMarkerTest(f) ==
  LET S == {d \in Docs : RegexPrefix(patients[d][f])}
      sample == Take(SetToSeq(S), SampleSize)
  IN /\ sample # <<>>
     /\ \A i \in 1..Len(sample) :
          LET v == patients[sample[i]][f]
          IN /\ DecryptOk(v)
             /\ decrypt_field(v) # v

\* verify_encryption(collection, field): TRUE when every sampled value decrypts
\* to something else that does not bear the marker
verify_encryption(f) ==
  LET S == {d \in Docs : RegexPrefix(patients[d][f])}
      sample == Take(SetToSeq(S), SampleSize)
  IN /\ sample # <<>>
     /\ \A i \in 1..Len(sample) :
          LET v == patients[sample[i]][f]
          IN /\ DecryptOk(v)
             /\ decrypt_field(v) # v
             /\ ~RegexPrefix(decrypt_field(v))

\* main() after the loop over the fields
EncAfterFields ==
  /\ enc.pc = "field"
  /\ enc.fi > Len(ENCRYPTED_FIELDS)
  /\ \/ /\ ~enc.dry /\ enc.total > 0
        /\ enc' = [enc EXCEPT !.pc = "verify", !.fi = 1, !.verified = TRUE]
        /\ UNCHANGED hist
     \/ /\ ~(~enc.dry /\ enc.total > 0)
        /\ enc' = [enc EXCEPT !.pc = "done"]
        /\ hist' = [hist EXCEPT !.encClean = @ \/ (~enc.dry /\ enc.raised = 0)]
  /\ UNCHANGED <<patients, patients0, hsh>>
  /\ UNCHANGED bakVars
  /\ UNCHANGED extVars

\* one pass of the verification loop of main()
EncVerify ==
  /\ enc.pc = "verify"
  /\ LET ok == verify_encryption(ENCRYPTED_FIELDS[enc.fi])
         last == enc.fi = Len(ENCRYPTED_FIELDS)
     IN /\ enc' = [enc EXCEPT !.verified = @ /\ ok, !.checked = @ + 1,
                              !.fi = IF last THEN @ ELSE @ + 1,
                              !.pc = IF last THEN "done" ELSE @]
        /\ hist' = [hist EXCEPT !.encClean = @ \/ (last /\ enc.raised = 0)]
  /\ UNCHANGED <<patients, patients0, hsh>>
  /\ UNCHANGED bakVars
  /\ UNCHANGED extVars

\* the process is killed
EncCrash ==
  /\ EncActive
  /\ enc' = [enc EXCEPT !.pc = "crashed"]
  /\ hist' = [hist EXCEPT !.midBatch = @ \/ (enc.writes > 0 /\ enc.cursor # <<>>)]
  /\ UNCHANGED <<patients, patients0, hsh>>
  /\ UNCHANGED bakVars
  /\ UNCHANGED extVars

(***************************************************************************)
(* add_searchable_hashes.py                                                *)
(***************************************************************************)
HASH_FIELDS == <<"nhs_number", "mrn">>

\* the selection without its test that the hash is missing
MissingHashQuery_All(doc, f) == doc[f].k # "absent"

\* {f: {"$exists": True}, f_hash: {"$exists": False}}
MissingHashQuery(doc, f) == doc[f].k # "absent" /\ doc[HashField(f)].k = "absent"

hash_input_NoDecrypt(v) == v

\* "Decrypt if encrypted": the value the hash is computed from
hash_input(v) == IF is_encrypted(v) THEN decrypt_field(v) ELSE v

\* migrate_patient_hashes up to the first loop
StartHash(dry) ==
  /\ ~EncActive
  /\ ~HashActive
  /\ hsh' = [HashIdle EXCEPT !.pc = IF dry THEN "done" ELSE "find",
                             !.dry = dry, !.second = hist.hashClean]
  /\ enc' = EncIdle
  /\ UNCHANGED <<patients, patients0, hist>>
  /\ UNCHANGED bakVars
  /\ UNCHANGED extVars

\* collection.find of the nhs_number loop, then of the mrn loop
HashFind ==
  /\ hsh.pc = "find"
  /\ LET f == HASH_FIELDS[hsh.fi]
         S == {d \in Docs : MissingHashQuery(patients[d], f)}
     IN hsh' = [hsh EXCEPT !.pc = "loop", !.cursor = Snapshot(S, f),
                           !.unvisited = @ + Cardinality(S)]
  /\ UNCHANGED <<patients, patients0, enc, hist>>
  /\ UNCHANGED bakVars
  /\ UNCHANGED extVars

\* one iteration of "for patient in nhs_patients" / "in mrn_patients"
HashDoc ==
  /\ hsh.pc = "loop"
  /\ hsh.cursor # <<>>
  /\ LET f == HASH_FIELDS[hsh.fi]
         doc == Head(hsh.cursor)
         plain == hash_input(doc.v)
         h == generate_search_hash(plain)
     IN \/ /\ ~IsTruthy(doc.v)
           /\ hsh' = [hsh EXCEPT !.cursor = Tail(@), !.skipped = @ + 1,
                                 !.unvisited = @ - 1]
           /\ UNCHANGED patients
        \/ /\ IsTruthy(doc.v)
           /\ is_encrypted(doc.v) => DecryptOk(doc.v)
           /\ IsTruthy(h)
           /\ patients' = UpdateOne(doc.id, HashField(f), h)
           /\ hsh' = [hsh EXCEPT !.cursor = Tail(@), !.updated = @ + 1,
                                 !.unvisited = @ - 1, !.writes = @ + 1]
        \/ /\ IsTruthy(doc.v)
           /\ is_encrypted(doc.v) => DecryptOk(doc.v)
           /\ ~IsTruthy(h)
           /\ hsh' = [hsh EXCEPT !.cursor = Tail(@), !.skipped = @ + 1,
                                 !.unvisited = @ - 1]
           /\ UNCHANGED patients
        \/ /\ IsTruthy(doc.v)
           \* decrypt_field raises on this value, or update_one raises: nothing
           \* catches it and migrate_patient_hashes ends here
           /\ hsh' = [hsh EXCEPT !.pc = "aborted", !.raised = @ + 1,
                                 !.unvisited = @ - 1]
           /\ UNCHANGED patients
  /\ UNCHANGED <<patients0, enc, hist>>
  /\ UNCHANGED bakVars
  /\ UNCHANGED extVars

\* the end of a loop: the next loop, or the summary
HashLoopEnd ==
  /\ hsh.pc = "loop"
  /\ hsh.cursor = <<>>
  /\ LET last == hsh.fi = Len(HASH_FIELDS)
     IN /\ hsh' = [hsh EXCEPT !.fi = IF last THEN @ ELSE @ + 1,
                              !.pc = IF last THEN "done" ELSE "find"]
        /\ hist' = [hist EXCEPT !.hashClean = @ \/ last]
  /\ UNCHANGED <<patients, patients0, enc>>
  /\ UNCHANGED bakVars
  /\ UNCHANGED extVars

HashCrash ==
  /\ HashActive
  /\ hsh' = [hsh EXCEPT !.pc = "crashed"]
  /\ hist' = [hist EXCEPT !.midBatch = @ \/ (hsh.writes > 0 /\ hsh.cursor # <<>>)]
  /\ UNCHANGED <<patients, patients0, enc>>
  /\ UNCHANGED bakVars
  /\ UNCHANGED extVars

Next ==
  \/ \E dry \in BOOLEAN : StartEnc(dry)
  \/ EncFieldStart
  \/ EncDoc
  \/ EncFieldEnd
  \/ EncAfterFields
  \/ EncVerify
  \/ EncCrash
  \/ \E dry \in BOOLEAN : StartHash(dry)
  \/ HashFind
  \/ HashDoc
  \/ HashLoopEnd
  \/ HashCrash

Spec == Init /\ [][Next]_vars

(***************************************************************************)
(* One uninterrupted, error-free pass of both migrations over a collection, *)
(* as a function of the collection.                                        *)
(***************************************************************************)
\* migrate_field on one value
EncryptedOnce(v) ==
  IF NeedsEncryptionQuery(v) /\ IsTruthy(v) THEN encrypt_field(v, "1") ELSE v

\* one loop of migrate_patient_hashes on one document
HashedOnce(doc, f) ==
  LET v == doc[f]
      plain == IF is_encrypted(v) THEN decrypt_field(v) ELSE v
      h == generate_search_hash(plain)
  IN IF MissingHashQuery(doc, f) /\ IsTruthy(v) /\ IsTruthy(h)
       THEN h ELSE doc[HashField(f)]

UninterruptedRun(store) ==
  [d \in Docs |->
     LET e == [store[d] EXCEPT !.nhs_number = EncryptedOnce(@),
                               !.mrn = EncryptedOnce(@)]
     IN [e EXCEPT !.nhs_number_hash = HashedOnce(e, "nhs_number"),
                  !.mrn_hash = HashedOnce(e, "mrn")]]

(***************************************************************************)
(* What the claims speak of.                                               *)
(***************************************************************************)
SensitiveFields == {ENCRYPTED_FIELDS[i] : i \in 1..Len(ENCRYPTED_FIELDS)}

\* A document as the claims compare it: per field, whether it is encrypted
\* and the plaintext behind it; the hashes as stored.
Behind(v) == IF DecryptOk(v) THEN decrypt_field(v) ELSE v

View(doc) ==
  [nhs_number |-> <<is_encrypted(doc.nhs_number), Behind(doc.nhs_number)>>,
   mrn |-> <<is_encrypted(doc.mrn), Behind(doc.mrn)>>,
   nhs_number_hash |-> doc.nhs_number_hash,
   mrn_hash |-> doc.mrn_hash]

HasHash(doc, f) == doc[HashField(f)].k # "absent"

\* Along the order of the field states, a field never goes back: a value
\* stays, an encrypted value stays encrypted, a hash stays as it is.
Forward(old, new, f) ==
  /\ old[f].k # "absent" => new[f].k # "absent"
  /\ is_encrypted(old[f]) => is_encrypted(new[f])
  /\ Behind(old[f]) = Behind(new[f]) \/ ~is_encrypted(old[f])
  /\ HasHash(old, f) => new[HashField(f)] = old[HashField(f)]

\* The four states of the specification: a hash only beside a ciphertext.
FourStates(doc, f) == HasHash(doc, f) => is_encrypted(doc[f])

\* With the state the code adds, plaintext with hash: a hash only beside a
\* non-empty value.
FiveStates(doc, f) == HasHash(doc, f) => IsTruthy(doc[f])

\* A sampled value verify_encryption has to reject.
BadSample(f) ==
  LET S == {d \in Docs : RegexPrefix(patients[d][f])}
      sample == Take(SetToSeq(S), SampleSize)
  IN \E i \in 1..Len(sample) :
       LET v == patients[sample[i]][f]
       IN DecryptOk(v) /\ (decrypt_field(v) = v \/ RegexPrefix(decrypt_field(v)))

(***************************************************************************)
(* Claims on the migrations.                                               *)
(***************************************************************************)
\* C1: a run of the encryption migration or of the hash migration that
\* starts after a complete, error-free real run of the same migration writes
\* to no document and ends reporting zero encryptions / zero hashes.
C1_SecondRunIsNoOp ==
  [][ /\ (enc.second /\ EncActive) => patients' = patients
      /\ (hsh.second /\ HashActive) => patients' = patients
      /\ (enc'.second /\ ~enc'.dry) => (enc'.processed = 0 /\ enc'.total = 0)
      /\ hsh'.second => hsh'.updated = 0 ]_vars

C1_Witness ==
  /\ enc.second /\ ~enc.dry /\ enc.pc = "done"
  /\ hist.hashClean
  /\ patients # patients0

\* C2: once both migrations have run to completion without error, whatever
\* crashes and restarts came before, every document has the encrypted
\* status, the plaintext behind each ciphertext and the hashes that one
\* uninterrupted run over the initial collection gives.
C2_RestartSameAsUninterrupted ==
  (hist.encClean /\ hist.hashClean) =>
    \A d \in Docs : View(patients[d]) = View(UninterruptedRun(patients0)[d])

C2_Witness ==
  /\ hist.encClean /\ hist.hashClean /\ hist.midBatch
  /\ patients # patients0

\* C3 as stated: every field is in one of the four states (a hash only
\* beside a ciphertext) and every step moves it forward or leaves it.
C3_Original ==
  [][ \A d \in Docs : \A f \in SensitiveFields :
        /\ FourStates(patients'[d], f)
        /\ Forward(patients[d], patients'[d], f) ]_vars

\* C3 as amended: every field is absent, plaintext, plaintext with hash,
\* encrypted without hash or encrypted with hash; no step removes a value,
\* turns a ciphertext back into plaintext, changes the plaintext behind a
\* ciphertext or removes or changes a hash.
C3_ForwardOnly ==
  [][ \A d \in Docs : \A f \in SensitiveFields :
        /\ FiveStates(patients'[d], f)
        /\ Forward(patients[d], patients'[d], f) ]_vars

C3_Witness ==
  \E d \in Docs :
    /\ patients0[d].nhs_number = PlainA
    /\ ~HasHash(patients0[d], "nhs_number")
    /\ is_encrypted(patients[d].nhs_number)
    /\ HasHash(patients[d], "nhs_number")
    /\ hist.midBatch

\* C4: no step of a dry run of either migration changes the collection, and
\* a dry run counts no write and no encrypted document.
C4_DryRunWritesNothing ==
  [][ /\ ((enc'.dry /\ enc' # enc) \/ (hsh'.dry /\ hsh' # hsh))
           => patients' = patients
      /\ enc'.dry => (enc'.writes = 0 /\ enc'.processed = 0)
      /\ hsh'.dry => (hsh'.writes = 0 /\ hsh'.updated = 0) ]_vars

C4_Witness ==
  /\ enc.dry /\ enc.pc = "done" /\ enc.total > 0
  /\ \E d \in Docs : NeedsEncryptionQuery(patients[d].nhs_number)
                     /\ IsTruthy(patients[d].nhs_number)

\* C5: a failure on one document does not end a migration: the encryption
\* run ends with every selected document visited and the errors it met
\* printed, and the hash run is not ended by an exception.
C5_ErrorsTalliedRunContinues ==
  /\ enc.pc = "done" => (enc.unvisited = 0 /\ enc.printed = enc.raised)
  /\ hsh.raised > 0 => hsh.pc # "aborted"

\* C6 as stated: every real run is followed by the verification pass; the
\* pass fails on a sampled value that decrypts to itself or to a value that
\* bears the marker, and changes no document.
C6_Original ==
  [][ /\ enc.pc = "verify" => patients' = patients
      /\ (enc'.pc = "done" /\ enc.pc # "done" /\ ~enc'.dry) =>
           /\ enc'.checked = Len(ENCRYPTED_FIELDS)
           /\ (\E f \in SensitiveFields : BadSample(f)) => ~enc'.verified ]_vars

\* C6 as amended: the same of every real run that encrypted at least one
\* value.
C6_VerificationOnlyReports ==
  [][ /\ enc.pc = "verify" => patients' = patients
      /\ (enc'.pc = "done" /\ enc.pc # "done" /\ ~enc'.dry /\ enc'.total > 0) =>
           /\ enc'.checked = Len(ENCRYPTED_FIELDS)
           /\ (\E f \in SensitiveFields : BadSample(f)) => ~enc'.verified ]_vars

C6_Witness ==
  /\ enc.pc = "done" /\ ~enc.dry /\ enc.total > 0
  /\ enc.checked = Len(ENCRYPTED_FIELDS)
  /\ ~enc.verified
  /\ BadSample("mrn")

(***************************************************************************)
(* backup_database.py                                                      *)
(***************************************************************************)
InitBackup ==
  /\ patients = [d \in Docs |-> Doc(PlainA, PlainA, Absent, Absent)]
  /\ patients0 = patients
  /\ enc = EncIdle
  /\ hsh = HashIdle
  /\ hist = HistInit
  /\ \E foreign \in BOOLEAN :
       fs = [n \in Names |-> IF n = 0 /\ foreign THEN ForeignBackup ELSE NoFiles]
  /\ keyfiles \in {[secret |-> 0, salt |-> 0], [secret |-> 1, salt |-> 1]}
  /\ bk = BkIdle
  /\ dec = DecIdle
  /\ clock = 0
  /\ db = DbFull
  /\ api = NoAnswer
  /\ kp = [p \in Procs |-> KpIdle]
  /\ lookup = NoLookup
  /\ listed = NoListing
  /\ resp = NoResponse
  /\ epf = EpfIdle
  /\ apiw = NoApiWrites
  /\ runs = NoRuns

IndexOf(seq, x) == CHOOSE i \in 1..Len(seq) : seq[i] = x

\* the step that follows step x in program order
After(seq, x) ==
  IF IndexOf(seq, x) = Len(seq) THEN "done" ELSE seq[IndexOf(seq, x) + 1]

\* main(): the directory, the connection, the dump, the manifest and its
\* rewrite with the size
main_steps ==
  <<"mkdir", "connect", "stats", "stats2", "dump", "dump2",
    "manifest", "manifest2">>

\* Two orders of the steps of encrypt_backup that a slip would give: the
\* plaintext removed before the checksum is written, and the checksum
\* written before the ciphertext.
encrypt_backup_steps_CleanupFirst ==
  <<"getkey", "getkey2", "tar", "tar2", "encopen", "encwrite",
    "unlink", "rmtree", "rmtree2", "sumopen", "sumwrite", "meta">>

encrypt_backup_steps_ChecksumFirst ==
  <<"getkey", "getkey2", "tar", "tar2", "sumopen", "sumwrite",
    "encopen", "encwrite", "meta", "unlink", "rmtree", "rmtree2">>

\* encrypt_backup: the key, the tarball, the ciphertext, the checksum, the
\* manifest copy, then the cleanup
encrypt_backup_steps ==
  <<"getkey", "getkey2", "tar", "tar2", "encopen", "encwrite",
    "sumopen", "sumwrite", "meta", "unlink", "rmtree", "rmtree2">>

\* decrypt_backup: the key, the decryption, the tarball, the extraction, the
\* cleanup
decrypt_backup_steps ==
  <<"getkey", "getkey2", "decrypt", "taropen", "tarwrite",
    "extract", "extract2", "unlink">>

BkActive == bk.pc \notin {"idle", "done", "failed", "refused", "notfound"}
DecActive == dec.pc \notin {"idle", "done", "failed", "cryptofail"}

SetFile(n, file, val) == [fs EXCEPT ![n][file] = val]

\* ENCRYPTION_KEY_FILE.exists() and SALT_FILE.exists()
KeysExist == keyfiles.secret # 0 /\ keyfiles.salt # 0

\* Free space in GB as shutil.disk_usage reports it, on both sides of the
\* two thresholds.
FreeGB == {4, 5, 9, 10}

RefuseBelowGB == 5
WarnBelowGB == 10

\* the preflight with both comparisons inclusive
check_disk_space_Inclusive(free_gb) ==
  IF free_gb <= RefuseBelowGB THEN "exit"
  ELSE IF free_gb <= WarnBelowGB THEN "warn" ELSE "ok"

\* check_disk_space(): sys.exit(1), a warning, or the OK line
check_disk_space(free_gb) ==
  IF free_gb < RefuseBelowGB THEN "exit"
  ELSE IF free_gb < WarnBelowGB THEN "warn" ELSE "ok"

\* main() up to the timestamp: the base directory is made, check_disk_space
\* ends the process or lets the run pass, then the timestamp is taken
BkStart(noenc, manual, viaApi) ==
  /\ ~BkActive
  /\ ~DecActive
  /\ clock < NumBackups
  /\ \E free_gb \in FreeGB :
       IF check_disk_space(free_gb) = "exit"
         THEN /\ bk' = [BkIdle EXCEPT !.pc = "refused", !.free = free_gb,
                                      !.noEncrypt = noenc, !.manual = manual,
                                      !.viaApi = viaApi]
              /\ clock' = clock
         ELSE /\ bk' = [BkIdle EXCEPT !.pc = "mkdir", !.name = clock + 1,
                                      !.noEncrypt = noenc, !.manual = manual,
                                      !.viaApi = viaApi,
                                      !.free = free_gb,
                                      !.warned = (check_disk_space(free_gb) = "warn")]
              /\ clock' = clock + 1
  /\ dec' = DecIdle
  /\ UNCHANGED <<fs, keyfiles>>
  /\ UNCHANGED migVars
  /\ UNCHANGED extVars

\* backup_dir.mkdir(parents=True, exist_ok=True)
BkMkdir ==
  /\ bk.pc = "mkdir"
  /\ fs' = SetFile(bk.name, "dir",
                   IF fs[bk.name].dir = "absent" THEN "empty" ELSE fs[bk.name].dir)
  /\ bk' = [bk EXCEPT !.pc = After(main_steps, "mkdir")]
  /\ UNCHANGED <<keyfiles, dec, clock>>
  /\ UNCHANGED migVars
  /\ UNCHANGED extVars

\* MongoClient and ping: on failure sys.exit(1)
BkConnect ==
  /\ bk.pc = "connect"
  /\ \/ bk' = [bk EXCEPT !.pc = After(main_steps, "connect")]
     \/ bk' = [bk EXCEPT !.pc = "failed"]
  /\ UNCHANGED <<fs, keyfiles, dec, clock>>
  /\ UNCHANGED migVars
  /\ UNCHANGED extVars

\* the statistics that forgot to add up
AddCount_LastOnly(stats, coll, count) ==
  [collections |-> (coll :> count) @@ stats.collections,
   total_documents |-> count]

\* get_database_stats: one turn of the loop over the collections
AddCount(stats, coll, count) ==
  [collections |-> (coll :> count) @@ stats.collections,
   total_documents |-> stats.total_documents + count]

\* get_database_stats(client): count_documents({}) of each collection in turn
BkStats ==
  /\ \/ /\ bk.pc = "stats"
        /\ bk' = [bk EXCEPT !.stats = AddCount(EmptyStats, Colls[1],
                                               db.count[Colls[1]]),
                            !.pc = After(main_steps, "stats")]
     \/ /\ bk.pc = "stats2"
        /\ bk' = [bk EXCEPT !.stats = AddCount(bk.stats, Colls[2],
                                               db.count[Colls[2]]),
                            !.pc = After(main_steps, "stats2")]
  /\ UNCHANGED <<fs, keyfiles, dec, clock>>
  /\ UNCHANGED migVars
  /\ UNCHANGED extVars

\* backup_with_mongodump / backup_with_pymongo: the documents of each
\* collection in turn are read and written to the dump
BkDump ==
  /\ \/ /\ bk.pc = "dump"
        /\ fs' = [fs EXCEPT ![bk.name].dir = "dumping",
                            ![bk.name].files.dump =
                               (Colls[1] :> db.count[Colls[1]]) @@ <<>>]
        /\ bk' = [bk EXCEPT !.pc = After(main_steps, "dump")]
     \/ /\ bk.pc = "dump2"
        /\ fs' = [fs EXCEPT ![bk.name].dir = "dumped",
                            ![bk.name].files.dump =
                               (Colls[2] :> db.count[Colls[2]]) @@ @]
        /\ bk' = [bk EXCEPT !.pc = After(main_steps, "dump2")]
  /\ UNCHANGED <<keyfiles, dec, clock>>
  /\ UNCHANGED migVars
  /\ UNCHANGED extVars

\* the kind that ignores the flag
backup_type_Automatic(manual) == "automatic"

\* backup_type = 'manual' if args.manual else 'automatic'
backup_type(manual) == IF manual THEN "manual" ELSE "automatic"

\* create_manifest(backup_dir, stats, backup_type, note): the manifest written
create_manifest(stats, kind) ==
  [backup_type |-> kind, collections |-> stats.collections,
   total_documents |-> stats.total_documents, encrypted |-> "unset"]

\* create_manifest, then the manifest rewritten with the size and the
\* encrypted flag; with --no-encrypt the run ends here, else encrypt_backup
\* is entered
BkManifest ==
  /\ \/ /\ bk.pc = "manifest"
        /\ fs' = [fs EXCEPT ![bk.name].dir = "manifest",
                            ![bk.name].files.manifest =
                               create_manifest(bk.stats, backup_type(bk.manual))]
        /\ bk' = [bk EXCEPT !.pc = After(main_steps, "manifest")]
     \/ /\ bk.pc = "manifest2"
        /\ fs' = [fs EXCEPT ![bk.name].dir = "complete",
                            ![bk.name].files.manifest.encrypted = JsonBool(~bk.noEncrypt),
                            ![bk.name].original =
                               [fs[bk.name].files EXCEPT
                                  !.manifest.encrypted = JsonBool(~bk.noEncrypt)]]
        /\ bk' = [bk EXCEPT !.pc = IF bk.noEncrypt THEN "done"
                                   ELSE encrypt_backup_steps[1],
                            !.inEncrypt = ~bk.noEncrypt]
  /\ UNCHANGED <<keyfiles, dec, clock>>
  /\ UNCHANGED migVars
  /\ UNCHANGED extVars

\* get_or_create_encryption_key called by encrypt_backup: the files are
\* read, or a new secret is written, then a new salt
BkGetKey ==
  /\ \/ /\ bk.pc = "getkey"
        /\ KeysExist
        /\ \E throwaway \in RandomKeys :
             bk' = [bk EXCEPT
               !.key = returned_cipher(Derive(keyfiles.secret, keyfiles.salt),
                                       throwaway),
               !.pc = After(encrypt_backup_steps, "getkey2")]
        /\ UNCHANGED keyfiles
     \/ /\ bk.pc = "getkey"
        /\ ~KeysExist
        /\ \E k \in KeyIds :
             /\ keyfiles' = [keyfiles EXCEPT !.secret = k]
             /\ bk' = [bk EXCEPT !.gen = k,
                                 !.pc = After(encrypt_backup_steps, "getkey")]
     \/ /\ bk.pc = "getkey2"
        /\ keyfiles' = [keyfiles EXCEPT !.salt = bk.gen]
        /\ \E throwaway \in RandomKeys :
             bk' = [bk EXCEPT
               !.key = returned_cipher(Derive(bk.gen, bk.gen), throwaway),
               !.pc = After(encrypt_backup_steps, "getkey2")]
  /\ UNCHANGED <<fs, dec, clock>>
  /\ UNCHANGED migVars
  /\ UNCHANGED extVars

\* tarfile.open(tarball_path, 'w:gz') ... tar.add
BkTar ==
  /\ \/ /\ bk.pc = "tar"
        /\ fs' = SetFile(bk.name, "tar", "partial")
        /\ bk' = [bk EXCEPT !.pc = After(encrypt_backup_steps, "tar")]
     \/ /\ bk.pc = "tar2"
        /\ fs' = [fs EXCEPT ![bk.name].tar = "full",
                            ![bk.name].tarfiles = fs[bk.name].files]
        /\ bk' = [bk EXCEPT !.pc = After(encrypt_backup_steps, "tar2")]
  /\ UNCHANGED <<keyfiles, dec, clock>>
  /\ UNCHANGED migVars
  /\ UNCHANGED extVars

\* the tarball read and fernet.encrypt, then open(encrypted_path, 'wb') ...
\* f.write(ciphertext)
BkEncWrite ==
  /\ \/ /\ bk.pc = "encopen"
        /\ fs' = SetFile(bk.name, "enc", [st |-> "partial", key |-> NoKey])
        /\ \E iv \in IVs :
             bk' = [bk EXCEPT !.cipher = fernet_encrypt(bk.key,
                                           fs[bk.name].tarfiles, iv),
                              !.pc = After(encrypt_backup_steps, "encopen")]
     \/ /\ bk.pc = "encwrite"
        /\ fs' = [fs EXCEPT ![bk.name].enc = [st |-> "full", key |-> bk.cipher.key],
                            ![bk.name].encbytes = bk.cipher]
        /\ bk' = [bk EXCEPT !.pc = After(encrypt_backup_steps, "encwrite")]
  /\ UNCHANGED <<keyfiles, dec, clock>>
  /\ UNCHANGED migVars
  /\ UNCHANGED extVars

\* open(checksum_file, 'w') ... f.write
BkChecksum ==
  /\ \/ /\ bk.pc = "sumopen"
        /\ fs' = SetFile(bk.name, "sum", "partial")
        /\ bk' = [bk EXCEPT !.pc = After(encrypt_backup_steps, "sumopen")]
     \/ /\ bk.pc = "sumwrite"
        /\ fs' = [fs EXCEPT ![bk.name].sum = "full",
                            ![bk.name].sumline = checksum_line(bk.cipher, bk.name)]
        /\ bk' = [bk EXCEPT !.pc = After(encrypt_backup_steps, "sumwrite")]
  /\ UNCHANGED <<keyfiles, dec, clock>>
  /\ UNCHANGED migVars
  /\ UNCHANGED extVars

\* the manifest copied beside the encrypted file, if the manifest exists
BkMeta ==
  /\ bk.pc = "meta"
  /\ fs' = IF fs[bk.name].dir \in {"manifest", "complete"}
             THEN [fs EXCEPT ![bk.name].meta = "present",
                             ![bk.name].metafile = fs[bk.name].files.manifest]
             ELSE fs
  /\ bk' = [bk EXCEPT !.pc = After(encrypt_backup_steps, "meta")]
  /\ UNCHANGED <<keyfiles, dec, clock>>
  /\ UNCHANGED migVars
  /\ UNCHANGED extVars

\* tarball_path.unlink(), then shutil.rmtree(backup_dir)
BkCleanup ==
  /\ \/ /\ bk.pc = "unlink"
        /\ fs' = [fs EXCEPT ![bk.name].tar = "absent",
                            ![bk.name].tarfiles = NoContent]
        /\ bk' = [bk EXCEPT !.pc = After(encrypt_backup_steps, "unlink")]
     \/ /\ bk.pc = "rmtree"
        /\ fs' = SetFile(bk.name, "dir", "removing")
        /\ bk' = [bk EXCEPT !.pc = After(encrypt_backup_steps, "rmtree")]
     \/ /\ bk.pc = "rmtree2"
        /\ fs' = [fs EXCEPT ![bk.name].dir = "absent",
                            ![bk.name].files = NoContent]
        /\ bk' = [bk EXCEPT !.pc = After(encrypt_backup_steps, "rmtree2")]
  /\ UNCHANGED <<keyfiles, dec, clock>>
  /\ UNCHANGED migVars
  /\ UNCHANGED extVars

\* A step raises, or the process is killed: nothing in main() or in
\* encrypt_backup catches it or removes what was written.
BkAbort ==
  /\ BkActive
  /\ bk' = [bk EXCEPT !.pc = "failed"]
  /\ UNCHANGED <<fs, keyfiles, dec, clock>>
  /\ UNCHANGED migVars
  /\ UNCHANGED extVars

fernet_decrypt_Empty(token) == NoContent

\* fernet.decrypt(ciphertext): the plaintext the token holds
fernet_decrypt(token) == token.plain

\* fernet.decrypt(ciphertext): the token authenticates under the key
fernet_decrypt_ok(encfile, key) == encfile.st = "full" /\ encfile.key = key

decrypt_outcome_Swallowed(encfile, key) == "ok"

\* the try / except around fernet.decrypt in decrypt_backup
decrypt_outcome(encfile, key) ==
  IF fernet_decrypt_ok(encfile, key) THEN "ok" ELSE "cryptofail"

\* decrypt_backup(encrypted_path) is called
DecStart(n) ==
  /\ ~BkActive
  /\ ~DecActive
  /\ n <= clock
  /\ dec' = [DecIdle EXCEPT !.pc = decrypt_backup_steps[1], !.name = n,
                            !.before = [tar |-> fs[n].tar, dir |-> fs[n].dir]]
  /\ bk' = BkIdle
  /\ UNCHANGED <<fs, keyfiles, clock>>
  /\ UNCHANGED migVars
  /\ UNCHANGED extVars

\* get_or_create_encryption_key called by decrypt_backup
DecGetKey ==
  /\ \/ /\ dec.pc = "getkey"
        /\ KeysExist
        /\ \E throwaway \in RandomKeys :
             dec' = [dec EXCEPT
               !.key = returned_cipher(Derive(keyfiles.secret, keyfiles.salt),
                                       throwaway),
               !.pc = After(decrypt_backup_steps, "getkey2")]
        /\ UNCHANGED keyfiles
     \/ /\ dec.pc = "getkey"
        /\ ~KeysExist
        /\ \E k \in KeyIds :
             /\ keyfiles' = [keyfiles EXCEPT !.secret = k]
             /\ dec' = [dec EXCEPT !.gen = k,
                                   !.pc = After(decrypt_backup_steps, "getkey")]
     \/ /\ dec.pc = "getkey2"
        /\ keyfiles' = [keyfiles EXCEPT !.salt = dec.gen]
        /\ \E throwaway \in RandomKeys :
             dec' = [dec EXCEPT
               !.key = returned_cipher(Derive(dec.gen, dec.gen), throwaway),
               !.pc = After(decrypt_backup_steps, "getkey2")]
  /\ UNCHANGED <<fs, bk, clock>>
  /\ UNCHANGED migVars
  /\ UNCHANGED extVars

\* the encrypted file is read and decrypted; on failure sys.exit(1)
DecDecrypt ==
  /\ dec.pc = "decrypt"
  /\ LET encfile == fs[dec.name].enc
     IN \/ /\ encfile.st = "absent"
           /\ dec' = [dec EXCEPT !.pc = "failed"]
        \/ /\ encfile.st # "absent"
           /\ decrypt_outcome(encfile, dec.key) = "ok"
           /\ dec' = [dec EXCEPT !.plain = fernet_decrypt(fs[dec.name].encbytes),
                                 !.pc = After(decrypt_backup_steps, "decrypt")]
        \/ /\ encfile.st # "absent"
           /\ decrypt_outcome(encfile, dec.key) = "cryptofail"
           /\ dec' = [dec EXCEPT !.pc = "cryptofail"]
  /\ UNCHANGED <<fs, keyfiles, bk, clock>>
  /\ UNCHANGED migVars
  /\ UNCHANGED extVars

\* open(tarball_path, 'wb') ... f.write(plaintext)
DecTar ==
  /\ \/ /\ dec.pc = "taropen"
        /\ fs' = SetFile(dec.name, "tar", "partial")
        /\ dec' = [dec EXCEPT !.pc = After(decrypt_backup_steps, "taropen")]
     \/ /\ dec.pc = "tarwrite"
        /\ fs' = [fs EXCEPT ![dec.name].tar = "full",
                            ![dec.name].tarfiles = dec.plain]
        /\ dec' = [dec EXCEPT !.pc = After(decrypt_backup_steps, "tarwrite")]
  /\ UNCHANGED <<keyfiles, bk, clock>>
  /\ UNCHANGED migVars
  /\ UNCHANGED extVars

\* tar.extractall(path=output_dir)
DecExtract ==
  /\ \/ /\ dec.pc = "extract"
        /\ fs' = SetFile(dec.name, "dir", "extracting")
        /\ dec' = [dec EXCEPT !.pc = After(decrypt_backup_steps, "extract")]
     \/ /\ dec.pc = "extract2"
        /\ fs' = [fs EXCEPT ![dec.name].dir = "complete",
                            ![dec.name].files = fs[dec.name].tarfiles]
        /\ dec' = [dec EXCEPT !.pc = After(decrypt_backup_steps, "extract2")]
  /\ UNCHANGED <<keyfiles, bk, clock>>
  /\ UNCHANGED migVars
  /\ UNCHANGED extVars

\* tarball_path.unlink()
DecUnlink ==
  /\ dec.pc = "unlink"
  /\ fs' = [fs EXCEPT ![dec.name].tar = "absent",
                      ![dec.name].tarfiles = NoContent]
  /\ dec' = [dec EXCEPT !.pc = After(decrypt_backup_steps, "unlink")]
  /\ UNCHANGED <<keyfiles, bk, clock>>
  /\ UNCHANGED migVars
  /\ UNCHANGED extVars

\* A step other than the decryption raises, or the process is killed.
DecAbort ==
  /\ DecActive
  /\ dec' = [dec EXCEPT !.pc = "failed"]
  /\ UNCHANGED <<fs, keyfiles, bk, clock>>
  /\ UNCHANGED migVars
  /\ UNCHANGED extVars

\* Another client of the database inserts or deletes a document while the
\* backup tool runs.
DbChange ==
  /\ db.changes < MaxDbChanges
  /\ \E c \in CollSet, d \in {-1, 1} :
       /\ db.count[c] + d \in 0..MaxCount
       /\ db' = [db EXCEPT !.count[c] = @ + d, !.changes = @ + 1]
  /\ UNCHANGED <<api, kp, lookup, listed, resp, epf, apiw, runs>>
  /\ UNCHANGED bakVars
  /\ UNCHANGED migVars

NextBackup ==
  \/ \E noenc \in BOOLEAN : BkStart(noenc, FALSE, FALSE)
  \/ BkMkdir
  \/ BkConnect
  \/ BkStats
  \/ BkDump
  \/ BkManifest
  \/ BkGetKey
  \/ BkTar
  \/ BkEncWrite
  \/ BkChecksum
  \/ BkMeta
  \/ BkCleanup
  \/ BkAbort
  \/ \E n \in Names : DecStart(n)
  \/ DecGetKey
  \/ DecDecrypt
  \/ DecTar
  \/ DecExtract
  \/ DecUnlink
  \/ DecAbort

SpecBackup == InitBackup /\ [][NextBackup]_vars

\* run_backup_script(note): the command line the API runs
run_backup_script_cmd == {"--manual"}

\* POST /api/admin/backups/create: 500 when the script is not found, else
\* the script is started in the background with the flags of
\* run_backup_script
create_backup ==
  \E script_exists \in BOOLEAN :
    IF script_exists
      THEN BkStart("--no-encrypt" \in run_backup_script_cmd,
                   "--manual" \in run_backup_script_cmd, TRUE)
      ELSE /\ ~BkActive
           /\ ~DecActive
           /\ bk' = [BkIdle EXCEPT !.pc = "notfound", !.viaApi = TRUE]
           /\ UNCHANGED <<fs, keyfiles, dec, clock>>
           /\ UNCHANGED migVars
           /\ UNCHANGED extVars

(***************************************************************************)
(* The backup tool beside a database that other clients write to: runs     *)
(* that no failure ends, over any of the stores, with or without key       *)
(* files.                                                                  *)
(***************************************************************************)
InitContent ==
  /\ patients = [d \in Docs |-> Doc(PlainA, PlainA, Absent, Absent)]
  /\ patients0 = patients
  /\ enc = EncIdle
  /\ hsh = HashIdle
  /\ hist = HistInit
  /\ fs = [n \in Names |-> NoFiles]
  /\ keyfiles \in {[secret |-> 0, salt |-> 0], [secret |-> 1, salt |-> 1]}
  /\ bk = BkIdle
  /\ dec = DecIdle
  /\ clock = 0
  /\ \E count \in [CollSet -> {0, MaxCount}] :
       db = [DbFull EXCEPT !.count = count]
  /\ api = NoAnswer
  /\ kp = [p \in Procs |-> KpIdle]
  /\ lookup = NoLookup
  /\ listed = NoListing
  /\ resp = NoResponse
  /\ epf = EpfIdle
  /\ apiw = NoApiWrites
  /\ runs = NoRuns

NextContent ==
  \/ \E noenc, manual \in BOOLEAN : BkStart(noenc, manual, FALSE)
  \/ create_backup
  \/ BkMkdir
  \/ BkConnect
  \/ BkStats
  \/ BkDump
  \/ BkManifest
  \/ BkGetKey
  \/ BkTar
  \/ BkEncWrite
  \/ BkChecksum
  \/ BkMeta
  \/ BkCleanup
  \/ \E n \in Names : DecStart(n)
  \/ DecGetKey
  \/ DecDecrypt
  \/ DecTar
  \/ DecExtract
  \/ DecUnlink
  \/ DbChange

SpecContent == InitContent /\ [][NextContent]_vars

(***************************************************************************)
(* Claims on the backup pipeline.                                          *)
(***************************************************************************)
\* A place that holds the whole backup: the tarball, the directory, or the
\* encrypted file together with its checksum file.
FullBackupKept(g) ==
  \/ g.tar = "full"
  \/ g.dir = "complete"
  \/ g.enc.st = "full" /\ g.sum = "full"

\* C7: from the entry of encrypt_backup on, whatever step the run stops
\* after, the tarball, the directory or the encrypted file with its checksum
\* holds the whole backup; and the step that removes the tarball or starts
\* removing the directory is taken only with the encrypted file and the
\* checksum file written.
C7_PlaintextKeptUntilChecksum ==
  [][ /\ bk'.inEncrypt => FullBackupKept(fs'[bk'.name])
      /\ (bk.inEncrypt /\ bk'.inEncrypt) =>
           LET g == fs[bk.name]
               h == fs'[bk.name]
           IN ((g.tar # "absent" /\ h.tar = "absent")
               \/ (g.dir = "complete" /\ h.dir # "complete"))
                => (g.enc.st = "full" /\ g.sum = "full") ]_vars

C7_Witness ==
  /\ bk.pc = "failed" /\ bk.inEncrypt
  /\ fs[bk.name].tar = "absent"
  /\ fs[bk.name].dir = "removing"

\* C8: a checksum file on disk, even an empty one, has its encrypted file
\* beside it, complete: an encrypted file that is not complete has no
\* checksum file.
C8_ChecksumImpliesCompleteCiphertext ==
  \A n \in Names : fs[n].sum # "absent" => fs[n].enc.st = "full"

C8_Witness ==
  /\ bk.pc = "failed"
  /\ fs[bk.name].enc.st = "partial"
  /\ fs[bk.name].sum = "absent"

\* C9: a backup run that failed has left nothing of its own on disk: no
\* timestamped directory, no tarball, no encrypted file without checksum.
C9_FailedRunLeavesNothing ==
  bk.pc = "failed" =>
    /\ fs[bk.name].dir = "absent"
    /\ fs[bk.name].tar = "absent"
    /\ fs[bk.name].enc.st # "absent" => fs[bk.name].sum = "full"

\* C10: a decryption whose token does not authenticate (other key, damaged
\* or incomplete file) ends in the cryptographic failure, and a call that
\* ended so has written nothing: the tarball and the directory of that name
\* are as they were before the call.
C10_WrongKeyWritesNothing ==
  [][ /\ (dec.pc = "decrypt" /\ dec' # dec /\ dec'.pc # "failed"
          /\ fs[dec.name].enc.st # "absent"
          /\ ~fernet_decrypt_ok(fs[dec.name].enc, dec.key))
           => dec'.pc = "cryptofail"
      /\ dec'.pc = "cryptofail" =>
           /\ fs'[dec'.name].tar = dec'.before.tar
           /\ fs'[dec'.name].dir = dec'.before.dir ]_vars

C10_Witness ==
  /\ dec.pc = "cryptofail"
  /\ fs[dec.name].enc.st = "full"
  /\ fs[dec.name].enc.key # dec.key
  /\ fs[dec.name].tar = "absent"
  /\ fs[dec.name].dir = "absent"

\* C11: a run that found less than 5 GB free has ended refused with no
\* timestamp taken, nothing written under the backup directory and nothing
\* of the run begun; a run that went on found at least 5 GB and has warned
\* exactly when it found less than 10 GB.
C11_DiskPreflight ==
  [][ /\ (bk'.pc # "idle" /\ bk'.free < 5) =>
           /\ bk'.pc = "refused" /\ bk'.name = 0 /\ bk'.stats = EmptyStats
           /\ fs' = fs /\ clock' = clock
      /\ bk'.pc = "refused" => bk'.free < 5
      /\ bk'.pc \notin {"idle", "refused"} =>
           (bk'.free >= 5 /\ (bk'.warned <=> bk'.free < 10)) ]_vars

C11_Witness ==
  /\ bk.pc = "refused"
  /\ bk.free = 4
  /\ bk.stats = EmptyStats
  /\ \A n \in Names : n > 0 => fs[n] = NoFiles

(***************************************************************************)
(* Claims on what the backup files hold.                                   *)
(***************************************************************************)
RECURSIVE SumOver(_)
\* the sum of the values of a table
SumOver(f) ==
  IF DOMAIN f = {} THEN 0
  ELSE LET c == CHOOSE x \in DOMAIN f : TRUE
       IN f[c] + SumOver([x \in DOMAIN f \ {c} |-> f[x]])

\* C12: every manifest on disk, in a backup directory or beside an encrypted
\* file, counts every collection and has total_documents equal to the sum of
\* its per-collection counts; the count the statistics take for a collection
\* is the number of documents that collection holds at that moment, and the
\* manifest of the run carries the counts its statistics took.
C12_ManifestCounts ==
  [][ /\ \A n \in Names :
           \A mf \in {fs'[n].files.manifest, fs'[n].metafile} :
             mf # NoManifest =>
               /\ DOMAIN mf.collections = CollSet
               /\ mf.total_documents = SumOver(mf.collections)
      /\ \A i \in 1..Len(Colls) :
           (bk.pc = <<"stats", "stats2">>[i] /\ bk'.pc # bk.pc) =>
             bk'.stats.collections[Colls[i]] = db.count[Colls[i]]
      /\ (bk'.name > 0 /\ fs'[bk'.name].files.manifest # NoManifest) =>
           fs'[bk'.name].files.manifest.collections = bk'.stats.collections ]_vars

C12_Witness ==
  /\ bk.pc = "done"
  /\ fs[bk.name].metafile.total_documents = 3
  /\ fs[bk.name].metafile.collections["patients"] = 3
  /\ fs[bk.name].metafile.collections["episodes"] = 0
  /\ db.count["patients"] # 3

\* C13: a checksum file that has been written holds the SHA-256 of exactly
\* the bytes of the encrypted file beside it, and that file's name.
C13_ChecksumOfCiphertext ==
  \A n \in Names :
    fs[n].sum = "full" =>
      /\ fs[n].enc.st = "full"
      /\ fs[n].sumline.digest = sha256(fs[n].encbytes)
      /\ fs[n].sumline.fname = EncName(n)

C13_Witness ==
  /\ bk.pc = "done" /\ bk.inEncrypt
  /\ fs[bk.name].sum = "full"
  /\ fs[bk.name].encbytes.plain.manifest.total_documents > 0

C15_BackupTypeTagged ==
  /\ (bk.name > 0 /\ fs[bk.name].files.manifest # NoManifest) =>
       fs[bk.name].files.manifest.backup_type =
         (IF bk.manual THEN "manual" ELSE "automatic")
  /\ \A n \in Names :
       fs[n].meta = "present" =>
         fs[n].metafile.backup_type = fs[n].original.manifest.backup_type
  /\ (bk.viaApi /\ bk.pc # "notfound") => bk.manual

C15_Witness ==
  /\ bk.viaApi /\ bk.pc = "done"
  /\ fs[bk.name].meta = "present"
  /\ fs[bk.name].metafile.backup_type = "manual"

(***************************************************************************)
(* The restore endpoint (routes/backups.py, restore_backup).  The handler  *)
(* is entered for a request of an administrator; it reads the request and  *)
(* the file system and answers.                                            *)
(***************************************************************************)
\* backup_dir.exists(): there is a directory of that name
backup_dir_exists(name) == fs[name].dir # "absent"

restore_answer_ConfirmLast(confirm, dir_exists, script_exists, name) ==
  IF ~dir_exists
    THEN [status |-> 404, confirm |-> confirm, backup_name |-> name,
          command |-> <<>>, ran |-> {}]
  ELSE IF ~script_exists
    THEN [status |-> 500, confirm |-> confirm, backup_name |-> name,
          command |-> <<>>, ran |-> {}]
  ELSE IF ~confirm
    THEN [status |-> 400, confirm |-> confirm, backup_name |-> name,
          command |-> <<>>, ran |-> {}]
  ELSE [status |-> 200, confirm |-> confirm, backup_name |-> name,
        command |-> <<"python3", "restore_database.py", name, "--confirm">>,
        ran |-> {}]

\* the answer of restore_backup: its status, the command it hands back and
\* the scripts it has run
restore_answer(confirm, dir_exists, script_exists, name) ==
  IF ~confirm
    THEN [status |-> 400, confirm |-> confirm, backup_name |-> name,
          command |-> <<>>, ran |-> {}]
  ELSE IF ~dir_exists
    THEN [status |-> 404, confirm |-> confirm, backup_name |-> name,
          command |-> <<>>, ran |-> {}]
  ELSE IF ~script_exists
    THEN [status |-> 500, confirm |-> confirm, backup_name |-> name,
          command |-> <<>>, ran |-> {}]
  ELSE [status |-> 200, confirm |-> confirm, backup_name |-> name,
        command |-> <<"python3", "restore_database.py", name, "--confirm">>,
        ran |-> {}]

restore_backup ==
  \E confirm, script_exists \in BOOLEAN, name \in Names :
    /\ api' = restore_answer(confirm, backup_dir_exists(name), script_exists,
                             name)
    /\ UNCHANGED <<db, kp, lookup, listed, resp, epf, apiw, runs>>
    /\ UNCHANGED bakVars
    /\ UNCHANGED migVars

\* the backup directories that hold a manifest.json, with that manifest
get_all_backups ==
  { [name |-> n, manifest |-> fs[n].files.manifest] :
      n \in { x \in Names : /\ fs[x].dir # "absent"
                             /\ fs[x].files.manifest # NoManifest } }

list_backups ==
  /\ listed' = [endpoint |-> "list", backup_name |-> 0, status |-> 200,
                backups |-> get_all_backups]
  /\ UNCHANGED <<db, api, kp, lookup, resp, epf, apiw, runs>>
  /\ UNCHANGED bakVars
  /\ UNCHANGED migVars

get_backup_details ==
  \E backup_name \in Names :
    /\ listed' =
         IF [name |-> backup_name, manifest |-> fs[backup_name].files.manifest]
              \in get_all_backups
           THEN [endpoint |-> "details", backup_name |-> backup_name,
                 status |-> 200,
                 backups |-> {[name |-> backup_name,
                               manifest |-> fs[backup_name].files.manifest]}]
           ELSE [endpoint |-> "details", backup_name |-> backup_name,
                 status |-> 404, backups |-> {}]
    /\ UNCHANGED <<db, api, kp, lookup, resp, epf, apiw, runs>>
    /\ UNCHANGED bakVars
    /\ UNCHANGED migVars

NextApi ==
  \/ restore_backup
  \/ list_backups
  \/ get_backup_details
  \/ create_backup
  \/ BkMkdir
  \/ BkConnect
  \/ BkStats
  \/ BkDump
  \/ BkManifest
  \/ BkGetKey
  \/ BkTar
  \/ BkEncWrite
  \/ BkChecksum
  \/ BkMeta
  \/ BkCleanup

SpecApi == InitContent /\ [][NextApi]_vars

\* C16: the restore endpoint answers a request without confirm=true with 400
\* whatever the backup name and whether or not the backup and the restore
\* script exist; in every case it runs no script and leaves the database, the
\* patients, the backup files, the key files and the runs as they were; with
\* confirmation its 200 answer only carries the command to run by hand.
C16_RestoreNeverExecuted ==
  [][ api' # api =>
        /\ ~api'.confirm => (api'.status = 400 /\ api'.command = <<>>)
        /\ api'.ran = {}
        /\ db' = db /\ patients' = patients
        /\ fs' = fs /\ keyfiles' = keyfiles /\ bk' = bk /\ dec' = dec
        /\ api'.status = 200 =>
             /\ api'.confirm
             /\ api'.command =
                  <<"python3", "restore_database.py", api'.backup_name,
                    "--confirm">> ]_vars

C16_Witness ==
  /\ api.status = 400
  /\ ~api.confirm
  /\ fs[api.backup_name].dir = "absent"
  /\ \E n \in Names : fs[n].dir = "complete"

(***************************************************************************)
(* get_or_create_encryption_key, statement by statement, in two processes  *)
(* that share the two key files.                                           *)
(***************************************************************************)
InitKeyRace ==
  /\ patients = [d \in Docs |-> Doc(PlainA, PlainA, Absent, Absent)]
  /\ patients0 = patients
  /\ enc = EncIdle
  /\ hsh = HashIdle
  /\ hist = HistInit
  /\ fs = [n \in Names |-> NoFiles]
  /\ keyfiles = [secret |-> 0, salt |-> 0]
  /\ bk = BkIdle
  /\ dec = DecIdle
  /\ clock = 0
  /\ db = DbFull
  /\ api = NoAnswer
  /\ kp = [p \in Procs |-> [KpIdle EXCEPT !.pc = "exists"]]
  /\ lookup = NoLookup
  /\ listed = NoListing
  /\ resp = NoResponse
  /\ epf = EpfIdle
  /\ apiw = NoApiWrites
  /\ runs = NoRuns

KpRest ==
  /\ UNCHANGED <<fs, bk, dec, clock>>
  /\ UNCHANGED migVars
  /\ UNCHANGED <<db, api, lookup, listed, resp, epf, apiw, runs>>

\* if ENCRYPTION_KEY_FILE.exists() and SALT_FILE.exists()
KpExists(p) ==
  /\ kp[p].pc = "exists"
  /\ kp' = [kp EXCEPT ![p].pc =
              IF keyfiles.secret # 0 /\ keyfiles.salt # 0 THEN "readkey"
                                                           ELSE "generate"]
  /\ UNCHANGED keyfiles
  /\ KpRest

\* password = f.read(); salt = f.read()
KpRead(p) ==
  /\ \/ /\ kp[p].pc = "readkey"
        /\ kp' = [kp EXCEPT ![p].password = keyfiles.secret,
                            ![p].pc = "readsalt"]
     \/ /\ kp[p].pc = "readsalt"
        /\ kp' = [kp EXCEPT ![p].salt = keyfiles.salt, ![p].pc = "derive"]
  /\ UNCHANGED keyfiles
  /\ KpRest

\* password = Fernet.generate_key(); salt = os.urandom(16)
KpGenerate(p) ==
  /\ kp[p].pc = "generate"
  /\ \E k \in KeyIds :
       kp' = [kp EXCEPT ![p].password = k, ![p].salt = k,
                        ![p].pc = "writekey"]
  /\ UNCHANGED keyfiles
  /\ KpRest

\* ENCRYPTION_KEY_FILE.write_bytes(password); SALT_FILE.write_bytes(salt)
KpWrite(p) ==
  /\ \/ /\ kp[p].pc = "writekey"
        /\ keyfiles' = [keyfiles EXCEPT !.secret = kp[p].password]
        /\ kp' = [kp EXCEPT ![p].pc = "writesalt"]
     \/ /\ kp[p].pc = "writesalt"
        /\ keyfiles' = [keyfiles EXCEPT !.salt = kp[p].salt]
        /\ kp' = [kp EXCEPT ![p].pc = "derive"]
  /\ KpRest

\* key = kdf.derive(password); return Fernet(base64.urlsafe_b64encode(key))
KpDerive(p) ==
  /\ kp[p].pc = "derive"
  /\ \E throwaway \in RandomKeys :
       kp' = [kp EXCEPT
         ![p].key = returned_cipher(Derive(kp[p].password, kp[p].salt),
                                    throwaway),
         ![p].pc = "done"]
  /\ UNCHANGED keyfiles
  /\ KpRest

NextKeyRace ==
  \E p \in Procs :
    \/ KpExists(p)
    \/ KpRead(p)
    \/ KpGenerate(p)
    \/ KpWrite(p)
    \/ KpDerive(p)

SpecKeyRace == InitKeyRace /\ [][NextKeyRace]_vars

(***************************************************************************)
(* Patient search (routes/patients.py): the list and the count endpoint    *)
(* called with a search term that looks like an MRN or an NHS number.  The *)
(* identifiers of the model, the strings over "a" and "B", stand for such  *)
(* terms.  decrypt_document belongs to app.utils.encryption.               *)
(***************************************************************************)
StoredDocs ==
  { Doc(EncA, Absent, generate_search_hash(PlainA), Absent),
    Doc(encrypt_field(PlainB, "2"), Absent, generate_search_hash(PlainB),
        Absent),
    Doc(Absent, EncA, Absent, generate_search_hash(PlainA)),
    Doc(Absent, encrypt_field(PlainB, "1"), Absent,
        generate_search_hash(PlainB)) }

SearchTerms == {<<"a">>, <<"B">>, <<" ", "B">>, <<"a", "a">>}

\* decrypt_document: every encrypted field of the document decrypted
decrypt_document(doc) ==
  [f \in DOMAIN doc |->
     IF is_encrypted(doc[f]) /\ DecryptOk(doc[f]) THEN decrypt_field(doc[f])
                                                   ELSE doc[f]]

\* s.replace(" ", "").lower()
RECURSIVE CleanSearch(_)
CleanSearch(s) ==
  IF s = <<>> THEN <<>>
  ELSE IF Head(s) = " " THEN CleanSearch(Tail(s))
  ELSE <<Lower(Head(s))>> \o CleanSearch(Tail(s))

\* needle in hay
Contains(hay, needle) ==
  \E i \in 0..(Len(hay) - Len(needle)) :
    SubSeq(hay, i + 1, i + Len(needle)) = needle

\* decrypted.get(f) and clean_search in str(decrypted[f]).replace(" ", "").lower()
FieldMatches(decrypted, f, clean_search) ==
  /\ IsTruthy(decrypted[f])
  /\ Contains(CleanSearch(decrypted[f].s), clean_search)

\* the documents the endpoint fetches and the ones it hands to
\* decrypt_document: collection.find({}) / the pipeline with an empty $match
FetchedForSearch == Docs

\* the patients whose decrypted mrn or nhs_number contains the search term
FilteredPatients(search) ==
  { d \in FetchedForSearch :
      \/ FieldMatches(decrypt_document(patients[d]), "mrn", CleanSearch(search))
      \/ FieldMatches(decrypt_document(patients[d]), "nhs_number",
                      CleanSearch(search)) }

SearchRest ==
  /\ UNCHANGED bakVars
  /\ UNCHANGED migVars
  /\ UNCHANGED <<db, api, kp, listed, resp, epf, apiw, runs>>

count_patients ==
  \E search \in SearchTerms :
    /\ lookup' = [endpoint |-> "count", search |-> search,
                  decrypted |-> FetchedForSearch,
                  found |-> FilteredPatients(search)]
    /\ SearchRest

list_patients ==
  \E search \in SearchTerms :
    /\ lookup' = [endpoint |-> "list", search |-> search,
                  decrypted |-> FetchedForSearch,
                  found |-> FilteredPatients(search)]
    /\ SearchRest

InitLookup ==
  /\ patients \in [Docs -> StoredDocs]
  /\ patients0 = patients
  /\ enc = EncIdle
  /\ hsh = HashIdle
  /\ hist = HistInit
  /\ fs = [n \in Names |-> NoFiles]
  /\ keyfiles = [secret |-> 1, salt |-> 1]
  /\ bk = BkIdle
  /\ dec = DecIdle
  /\ clock = 0
  /\ db = DbFull
  /\ api = NoAnswer
  /\ kp = [p \in Procs |-> KpIdle]
  /\ lookup = NoLookup
  /\ listed = NoListing
  /\ resp = NoResponse
  /\ epf = EpfIdle
  /\ apiw = NoApiWrites
  /\ runs = NoRuns

NextLookup ==
  \/ count_patients
  \/ list_patients

SpecLookup == InitLookup /\ [][NextLookup]_vars

(***************************************************************************)
(* get_patient (routes/patients.py) and the catch-all exception handler    *)
(* (middleware/error_handler.py).  decrypt_field fails with a              *)
(* CryptographicError when the authentication tag does not verify.         *)
(***************************************************************************)
RequestDocs ==
  StoredDocs \cup { Doc(Corrupt, Absent, Absent, Absent),
                    Doc(Absent, Corrupt, Absent, generate_search_hash(PlainA)) }

\* what decrypt_document raises on the document, NoException if nothing
NoException == [type |-> "none", message |-> "none"]
decrypt_document_raises(doc) ==
  IF \E i \in 1..Len(ENCRYPTED_FIELDS) :
       is_encrypted(doc[ENCRYPTED_FIELDS[i]]) /\ ~DecryptOk(doc[ENCRYPTED_FIELDS[i]])
    THEN [type |-> "CryptographicError", message |-> "tag does not verify"]
    ELSE NoException

\* the JSONResponse of generic_exception_handler
generic_exception_handler(exc) ==
  [status |-> 500,
   body |-> [code |-> "INTERNAL_SERVER_ERROR",
             message |-> "An unexpected error occurred. Please try again later.",
             details |-> [error_type |-> exc.type]]]

get_patient ==
  \E patient_id \in Docs \cup {0} :
    /\ resp' =
         IF patient_id \notin Docs
           THEN [status |-> 404, body |-> [code |-> "HTTP_404"]]
         ELSE IF decrypt_document_raises(patients[patient_id]) # NoException
           THEN generic_exception_handler(
                  decrypt_document_raises(patients[patient_id]))
         ELSE [status |-> 200,
               body |-> [code |-> "OK",
                         patient |-> decrypt_document(patients[patient_id])]]
    /\ UNCHANGED <<db, api, kp, lookup, listed, epf, apiw, runs>>
    /\ UNCHANGED bakVars
    /\ UNCHANGED migVars

InitRequest ==
  /\ patients \in [Docs -> RequestDocs]
  /\ patients0 = patients
  /\ enc = EncIdle
  /\ hsh = HashIdle
  /\ hist = HistInit
  /\ fs = [n \in Names |-> NoFiles]
  /\ keyfiles = [secret |-> 1, salt |-> 1]
  /\ bk = BkIdle
  /\ dec = DecIdle
  /\ clock = 0
  /\ db = DbFull
  /\ api = NoAnswer
  /\ kp = [p \in Procs |-> KpIdle]
  /\ lookup = NoLookup
  /\ listed = NoListing
  /\ resp = NoResponse
  /\ epf = EpfIdle
  /\ apiw = NoApiWrites
  /\ runs = NoRuns

NextRequest == get_patient

SpecRequest == InitRequest /\ [][NextRequest]_vars

(***************************************************************************)
(* encrypt_all_patient_fields.py, run beside migrate_field on the same     *)
(* collection.                                                             *)
(***************************************************************************)
patient_encrypted_fields == <<"mrn", "nhs_number">>

epf_needs_encryption_NoMarkerTest(value) == value.k = "str"

\* value is not None and not is_encrypted(value)
epf_needs_encryption(value) == value.k = "str" /\ ~is_encrypted(value)

\* the $set of one patient: the fields to encrypt and their ciphertexts
epf_updates(doc, nonce) ==
  [f \in { g \in {patient_encrypted_fields[i] :
                    i \in 1..Len(patient_encrypted_fields)} :
             epf_needs_encryption(doc[g]) } |->
     encrypt_field(doc[f], nonce[f])]

EpfRest ==
  /\ UNCHANGED <<patients0, enc, hsh, hist>>
  /\ UNCHANGED bakVars
  /\ UNCHANGED <<db, api, kp, lookup, listed, resp, apiw, runs>>

\* patients = await collection.find({}).to_list(length=None)
EpfFind ==
  /\ epf.pc = "idle"
  /\ epf' = [epf EXCEPT !.pc = "loop",
                        !.cursor = [i \in 1..Cardinality(Docs) |->
                                      [id |-> SetToSeq(Docs)[i],
                                       doc |-> patients[SetToSeq(Docs)[i]]]]]
  /\ UNCHANGED patients
  /\ EpfRest

\* one iteration of "for patient in patients"
EpfPatient ==
  /\ epf.pc = "loop"
  /\ epf.cursor # <<>>
  /\ LET patient == Head(epf.cursor)
     IN \E nonce \in [{"mrn", "nhs_number"} -> Nonces] :
          LET updates == epf_updates(patient.doc, nonce)
          IN IF DOMAIN updates # {}
               THEN /\ patients' =
                         [patients EXCEPT ![patient.id] =
                            [g \in DOMAIN @ |->
                               IF g \in DOMAIN updates THEN updates[g]
                                                       ELSE @[g]]]
                    /\ epf' = [epf EXCEPT !.cursor = Tail(@),
                                          !.encrypted_count = @ + 1]
               ELSE /\ epf' = [epf EXCEPT !.cursor = Tail(@)]
                    /\ UNCHANGED patients
  /\ EpfRest

\* the loop has ended: the counts are printed
EpfEnd ==
  /\ epf.pc = "loop"
  /\ epf.cursor = <<>>
  /\ epf' = [epf EXCEPT !.pc = "done"]
  /\ UNCHANGED patients
  /\ EpfRest

InitRunners ==
  /\ patients \in [Docs -> InitialDocs]
  /\ patients0 = patients
  /\ enc = EncIdle
  /\ hsh = HashIdle
  /\ hist = HistInit
  /\ fs = [n \in Names |-> NoFiles]
  /\ keyfiles = [secret |-> 1, salt |-> 1]
  /\ bk = BkIdle
  /\ dec = DecIdle
  /\ clock = 0
  /\ db = DbFull
  /\ api = NoAnswer
  /\ kp = [p \in Procs |-> KpIdle]
  /\ lookup = NoLookup
  /\ listed = NoListing
  /\ resp = NoResponse
  /\ epf = EpfIdle
  /\ apiw = NoApiWrites
  /\ runs = NoRuns

NextRunners ==
  \/ StartEnc(FALSE)
  \/ EncFieldStart
  \/ EncDoc
  \/ EncFieldEnd
  \/ EpfFind
  \/ EpfPatient
  \/ EpfEnd

SpecRunners == InitRunners /\ [][NextRunners]_vars

(***************************************************************************)
(* update_patient (routes/patients.py) called while the migrations run.    *)
(* encrypt_document belongs to app.utils.encryption: it encrypts the       *)
(* sensitive fields of the update that do not bear the marker.             *)
(***************************************************************************)
NewValue == Str(<<"n">>)

\* encrypt_document(update_data) for an update of the one field
encrypt_document(f, value, n) ==
  IF value.k = "str" /\ ~is_encrypted(value) THEN encrypt_field(value, n)
                                             ELSE value

\* PUT /api/patients/{patient_id} with the one sensitive field provided
update_patient ==
  /\ apiw.n < MaxApiUpdates
  /\ \E d \in Docs, f \in {"mrn", "nhs_number"}, n \in Nonces :
       /\ patients' = UpdateOne(d, f, encrypt_document(f, NewValue, n))
       /\ apiw' = [apiw EXCEPT !.n = @ + 1, !.last[d][f] = NewValue]
  /\ UNCHANGED <<patients0, enc, hsh, hist>>
  /\ UNCHANGED bakVars
  /\ UNCHANGED <<db, api, kp, lookup, listed, resp, epf, runs>>

NextLostUpdate ==
  \/ update_patient
  \/ StartEnc(FALSE)
  \/ EncFieldStart
  \/ EncDoc
  \/ EncFieldEnd
  \/ EpfFind
  \/ EpfPatient
  \/ EpfEnd

SpecLostUpdate == InitRunners /\ [][NextLostUpdate]_vars

(***************************************************************************)
(* Two runs of backup_database.main side by side.  Here clock is the       *)
(* current second, the timestamp a run reads; the steps of a run are those *)
(* of main and encrypt_backup that touch the files under its timestamp.    *)
(***************************************************************************)
InitTwoRuns ==
  /\ patients = [d \in Docs |-> Doc(PlainA, PlainA, Absent, Absent)]
  /\ patients0 = patients
  /\ enc = EncIdle
  /\ hsh = HashIdle
  /\ hist = HistInit
  /\ fs = [n \in Names |-> NoFiles]
  /\ keyfiles = [secret |-> 1, salt |-> 1]
  /\ bk = BkIdle
  /\ dec = DecIdle
  /\ clock = 0
  /\ db = DbFull
  /\ api = NoAnswer
  /\ kp = [p \in Procs |-> KpIdle]
  /\ lookup = NoLookup
  /\ listed = NoListing
  /\ resp = NoResponse
  /\ epf = EpfIdle
  /\ apiw = NoApiWrites
  /\ runs = [r \in Runs |-> [RunIdle EXCEPT !.pc = "timestamp"]]

RunRest ==
  /\ UNCHANGED <<keyfiles, bk, dec>>
  /\ UNCHANGED migVars
  /\ UNCHANGED <<db, api, kp, lookup, listed, resp, epf, apiw>>

\* a second passes
Tick ==
  /\ clock < NumBackups
  /\ clock' = clock + 1
  /\ UNCHANGED <<fs, runs>>
  /\ RunRest

\* timestamp = datetime.now().strftime('%Y-%m-%d_%H-%M-%S')
RunTimestamp(r) ==
  /\ runs[r].pc = "timestamp"
  /\ runs' = [runs EXCEPT ![r].name = clock, ![r].pc = "mkdir"]
  /\ UNCHANGED <<fs, clock>>
  /\ RunRest

\* backup_dir.mkdir(parents=True, exist_ok=True)
RunMkdir(r) ==
  /\ runs[r].pc = "mkdir"
  /\ fs' = SetFile(runs[r].name, "dir",
                   IF fs[runs[r].name].dir = "absent"
                     THEN "empty" ELSE fs[runs[r].name].dir)
  /\ runs' = [runs EXCEPT ![r].pc = "dump"]
  /\ UNCHANGED clock
  /\ RunRest

\* the dump and the manifest are written into backup_dir
RunDump(r) ==
  /\ runs[r].pc = "dump"
  /\ IF fs[runs[r].name].dir = "absent"
       THEN /\ runs' = [runs EXCEPT ![r].pc = "failed"]
            /\ UNCHANGED fs
       ELSE /\ fs' = SetFile(runs[r].name, "dir", "complete")
            /\ runs' = [runs EXCEPT ![r].pc = "tar"]
  /\ UNCHANGED clock
  /\ RunRest

\* encrypt_backup: tar.add(backup_dir) into <name>.tar.gz
RunTar(r) ==
  /\ runs[r].pc = "tar"
  /\ IF fs[runs[r].name].dir = "absent"
       THEN /\ runs' = [runs EXCEPT ![r].pc = "failed"]
            /\ UNCHANGED fs
       ELSE /\ fs' = SetFile(runs[r].name, "tar", "full")
            /\ runs' = [runs EXCEPT ![r].pc = "encrypt"]
  /\ UNCHANGED clock
  /\ RunRest

\* encrypt_backup: the tarball is read, the encrypted file, the checksum and
\* the manifest copy are written
RunEncrypt(r) ==
  /\ runs[r].pc = "encrypt"
  /\ IF fs[runs[r].name].tar = "absent"
       THEN /\ runs' = [runs EXCEPT ![r].pc = "failed"]
            /\ UNCHANGED fs
       ELSE /\ fs' = [fs EXCEPT ![runs[r].name].enc.st = "full",
                                ![runs[r].name].sum = "full",
                                ![runs[r].name].meta =
                                   IF fs[runs[r].name].dir = "absent"
                                     THEN @ ELSE "present"]
            /\ runs' = [runs EXCEPT ![r].pc = "unlink"]
  /\ UNCHANGED clock
  /\ RunRest

\* encrypt_backup: tarball_path.unlink(), then shutil.rmtree(backup_dir)
RunCleanup(r) ==
  /\ \/ /\ runs[r].pc = "unlink"
        /\ IF fs[runs[r].name].tar = "absent"
             THEN /\ runs' = [runs EXCEPT ![r].pc = "failed"]
                  /\ UNCHANGED fs
             ELSE /\ fs' = SetFile(runs[r].name, "tar", "absent")
                  /\ runs' = [runs EXCEPT ![r].pc = "rmtree"]
     \/ /\ runs[r].pc = "rmtree"
        /\ IF fs[runs[r].name].dir = "absent"
             THEN /\ runs' = [runs EXCEPT ![r].pc = "failed"]
                  /\ UNCHANGED fs
             ELSE /\ fs' = SetFile(runs[r].name, "dir", "absent")
                  /\ runs' = [runs EXCEPT ![r].pc = "done"]
  /\ UNCHANGED clock
  /\ RunRest

NextTwoRuns ==
  \/ Tick
  \/ \E r \in Runs :
       \/ RunTimestamp(r)
       \/ RunMkdir(r)
       \/ RunDump(r)
       \/ RunTar(r)
       \/ RunEncrypt(r)
       \/ RunCleanup(r)

SpecTwoRuns == InitTwoRuns /\ [][NextTwoRuns]_vars

(***************************************************************************)
(* Claims on the key material.                                             *)
(***************************************************************************)
\* exactly one of ENCRYPTION_KEY_FILE and SALT_FILE is there
OneKeyFile == (keyfiles.secret # 0) # (keyfiles.salt # 0)

\* C17: a call of get_or_create_encryption_key, from the backup run or from
\* decrypt_backup, that finds exactly one of the two key files fails: it
\* leaves both files as they were and hands no key to its caller.
C17_OneKeyFileIsFatal ==
  [][ /\ (bk.pc = "getkey" /\ bk'.pc # bk.pc /\ OneKeyFile) =>
           (keyfiles' = keyfiles /\ bk'.pc = "failed")
      /\ (dec.pc = "getkey" /\ dec'.pc # dec.pc /\ OneKeyFile) =>
           (keyfiles' = keyfiles /\ dec'.pc = "failed") ]_vars

\* C18: when two processes have called get_or_create_encryption_key with
\* neither key file there and both have returned, they hold the same derived
\* key, and that key is the one derived from the secret and the salt on disk.
C18_RacingCallersAgree ==
  (\A p \in Procs : kp[p].pc = "done") =>
    \A p \in Procs :
      /\ kp[p].key = Derive(keyfiles.secret, keyfiles.salt)
      /\ \A q \in Procs : kp[q].key = kp[p].key

\* C19: once both key files exist no step changes them, and a call of
\* get_or_create_encryption_key that returns, in the backup run or in
\* decrypt_backup, returns the key derived from the secret and the salt on
\* disk, whatever random key was built on the way.
C19_KeyStableOnceCreated ==
  [][ KeysExist =>
        /\ keyfiles' = keyfiles
        /\ (bk.pc = "getkey" /\ bk'.pc \notin {"getkey", "failed"}) =>
             bk'.key = Derive(keyfiles.secret, keyfiles.salt)
        /\ (dec.pc = "getkey" /\ dec'.pc \notin {"getkey", "failed"}) =>
             dec'.key = Derive(keyfiles.secret, keyfiles.salt) ]_vars

C19_Witness ==
  /\ KeysExist
  /\ dec.pc = "done"
  /\ dec.name > 0
  /\ dec.key = Derive(keyfiles.secret, keyfiles.salt)
  /\ fs[dec.name].enc.key = dec.key

\* the documents whose stored hash field equals the search hash of the term
HashMatches(search) ==
  { d \in Docs :
      \E f \in {"nhs_number", "mrn"} :
        /\ generate_search_hash(Str(search)) # Null
        /\ patients[d][HashField(f)] = generate_search_hash(Str(search)) }

\* C20: a search of the list or the count endpoint by an identifier finds
\* the documents whose stored hash equals the search hash of the term, and
\* decrypts none but those.
C20_LookupByHashOnly ==
  lookup.endpoint # "none" =>
    /\ lookup.found = HashMatches(lookup.search)
    /\ lookup.decrypted \subseteq HashMatches(lookup.search)

\* encrypt_backup has finished on name n: the encrypted file, its checksum
\* and the manifest copy are there, the directory and the tarball are gone
EncryptedComplete(n) ==
  /\ fs[n].enc.st = "full" /\ fs[n].sum = "full" /\ fs[n].meta = "present"
  /\ fs[n].dir = "absent" /\ fs[n].tar = "absent"

\* C21: the listing names every backup that encrypt_backup has finished,
\* with the manifest copy kept beside the encrypted file, and the details
\* endpoint answers 200 with that manifest when asked for such a backup.
C21_EncryptedBackupsListed ==
  [][ listed' # listed =>
        \A n \in Names :
          EncryptedComplete(n) =>
            /\ listed'.endpoint = "list" =>
                 [name |-> n, manifest |-> fs[n].metafile] \in listed'.backups
            /\ (listed'.endpoint = "details" /\ listed'.backup_name = n) =>
                 /\ listed'.status = 200
                 /\ listed'.backups =
                      {[name |-> n, manifest |-> fs[n].metafile]} ]_vars

\* C22: the answer to a request in which decrypt_document failed has status
\* 500 and the fixed message, and neither the type name nor the message of
\* the exception appears in its body.
C22_DecryptFailureIsGeneric ==
  [][ \A d \in Docs :
        (resp' # resp /\ resp'.status = 500) =>
          /\ resp'.body.message =
               "An unexpected error occurred. Please try again later."
          /\ resp'.body.details.error_type \notin
               {decrypt_document_raises(patients[d]).type,
                decrypt_document_raises(patients[d]).message} \ {"none"} ]_vars

\* a stored value that is the encryption of a value bearing the marker
IsDoubleEncrypted(v) ==
  is_encrypted(v) /\ DecryptOk(v) /\ is_encrypted(decrypt_field(v))

\* C23: whenever migrate_field or encrypt_patient_fields writes a field, run
\* alone or interleaved on the same collection, the value written is the
\* encryption of the value that runner read, that value bore no marker, and
\* no write makes a stored value the encryption of a ciphertext.
C23_NoDoubleEncryption ==
  [][ \A d \in Docs : \A f \in {"nhs_number", "mrn"} :
        patients'[d][f] # patients[d][f] =>
          /\ ~IsDoubleEncrypted(patients'[d][f])
          /\ \/ /\ enc.pc = "loop" /\ enc' # enc
                /\ Head(enc.cursor).id = d
                /\ ~is_encrypted(Head(enc.cursor).v)
                /\ \E n \in Nonces :
                     patients'[d][f] = encrypt_field(Head(enc.cursor).v, n)
             \/ /\ epf.pc = "loop" /\ epf' # epf
                /\ Head(epf.cursor).id = d
                /\ ~is_encrypted(Head(epf.cursor).doc[f])
                /\ \E n \in Nonces :
                     patients'[d][f] =
                       encrypt_field(Head(epf.cursor).doc[f], n) ]_vars

\* both runners have written the same field of the same document, which
\* holds the encryption of its plaintext
C23_Witness ==
  /\ epf.pc = "done" /\ epf.encrypted_count > 0
  /\ enc.pc = "field" /\ enc.writes > 0
  /\ \E d \in Docs :
       /\ patients0[d].nhs_number = PlainA
       /\ is_encrypted(patients[d].nhs_number)
       /\ decrypt_field(patients[d].nhs_number) = PlainA
       /\ patients[d].nhs_number # encrypt_field(PlainA, "1")

\* C24: when a real run of the hash migration has ended without error, every
\* document whose nhs_number (mrn) is a non-empty string has nhs_number_hash
\* (mrn_hash) equal to the search hash of the field's plaintext, the stored
\* value decrypted when it is encrypted; a document whose field is missing,
\* null or empty has no hash for it.
C24_HashesAfterMigration ==
  (hsh.pc = "done" /\ ~hsh.dry) =>
    \A d \in Docs : \A i \in 1..Len(HASH_FIELDS) :
      LET f == HASH_FIELDS[i]
          v == patients[d][f]
      IN /\ IsTruthy(v) =>
              patients[d][HashField(f)] =
                generate_search_hash(IF is_encrypted(v) THEN decrypt_field(v)
                                                        ELSE v)
         /\ ~IsTruthy(v) => patients[d][HashField(f)].k = "absent"

C24_Witness ==
  /\ hsh.pc = "done" /\ ~hsh.dry /\ hsh.updated > 0
  /\ \E d, e \in Docs :
       /\ patients[d].nhs_number = Null
       /\ patients[d].nhs_number_hash = Absent
       /\ patients[d].mrn = EncA
       /\ patients0[d].mrn_hash = Absent
       /\ patients[d].mrn_hash = generate_search_hash(PlainA)
       /\ patients[e].nhs_number = PlainB
       /\ patients[e].nhs_number_hash = Str(<<"H:", "b">>)

\* the documents a real run of migrate_field encrypts for field f: those
\* that hold a non-empty string without the marker
HoldsPlaintext(f) ==
  {d \in Docs : IsTruthy(patients[d][f]) /\ ~is_encrypted(patients[d][f])}

\* C25: the number a dry run of migrate_field reports for a field is the
\* number of documents a real run on the same collection encrypts;
\* analyze_collection counts zero unencrypted exactly when no document holds
\* a non-empty plaintext, and counts the documents whose field is missing,
\* null or empty as missing.
C25_DryRunCountsRealWork ==
  [][ /\ (enc.pc = "field" /\ enc.dry /\ enc'.pc = "field"
            /\ enc'.fi = enc.fi + 1) =>
           enc'.total - enc.total =
             Cardinality(HoldsPlaintext(ENCRYPTED_FIELDS[enc.fi]))
      /\ \A i \in 1..Len(ENCRYPTED_FIELDS) :
           LET f == ENCRYPTED_FIELDS[i]
           IN /\ (analyze_collection(f).unencrypted = 0) <=>
                   (HoldsPlaintext(f) = {})
              /\ analyze_collection(f).missing =
                   Cardinality({d \in Docs : ~IsTruthy(patients[d][f])}) ]_vars

\* C26: a decrypt_backup that found neither a tarball nor a directory of the
\* backup's name and failed after its decryption had succeeded has left no
\* plaintext tarball and no partly extracted directory.
C26_FailedDecryptCleansUp ==
  (/\ dec.pc = "failed" /\ dec.plain # NoContent
   /\ dec.before.tar = "absent" /\ dec.before.dir = "absent") =>
    /\ fs[dec.name].tar = "absent"
    /\ fs[dec.name].dir # "extracting"

\* C27: no step of decrypt_backup changes the key files, and a decrypt_backup
\* that finds one or both of them missing fails.
C27_DecryptLeavesKeyMaterial ==
  [][ dec' # dec =>
        /\ keyfiles' = keyfiles
        /\ (dec.pc = "getkey" /\ ~KeysExist) => dec'.pc = "failed" ]_vars

\* C28: a write of migrate_field or of encrypt_patient_fields to a field that
\* update_patient has set leaves a value that decrypts to what update_patient
\* stored.
C28_NoLostUpdate ==
  [][ \A d \in Docs : \A f \in {"mrn", "nhs_number"} :
        (/\ apiw' = apiw
         /\ apiw.last[d][f] # Absent
         /\ patients'[d][f] # patients[d][f]) =>
          /\ is_encrypted(patients'[d][f])
          /\ decrypt_field(patients'[d][f]) = apiw.last[d][f] ]_vars

\* C29: a step of one of two backup runs changes only the files under that
\* run's own timestamp, a timestamp the other run does not have; and two
\* runs that have ended have both ended well, under two timestamps.
C29_ConcurrentRunsSeparate ==
  [][ /\ \A r \in Runs :
           (runs'[r] # runs[r] /\ fs' # fs) =>
             \A s \in Runs \ {r} : runs[s].name # runs[r].name
      /\ (\A r \in Runs : runs'[r].pc \in {"done", "failed"}) =>
           /\ \A r \in Runs : runs'[r].pc = "done"
           /\ \A r, s \in Runs : r # s => runs'[r].name # runs'[s].name ]_vars

\* C30: a manifest written into a backup directory gives, for every
\* collection dumped there, the number of documents the dump holds, also when
\* the store changed between the statistics and the dump.
C30_CountsMatchDump ==
  \A n \in Names :
    fs[n].files.manifest # NoManifest =>
      /\ DOMAIN fs[n].files.dump = CollSet
      /\ \A c \in CollSet :
           fs[n].files.manifest.collections[c] = fs[n].files.dump[c]

====
